---------------------------- MODULE Spec2Model ----------------------------
(***************************************************************************)
(* The instruction decoder of the RISC-V disassembler (src/src/elf_parser.cpp): *)
(* the bit extractors, the register namer, the emitter and the driver loop  *)
(* parse_text, as a state machine over the bytes of the input file.         *)
(*                                                                          *)
(* Number representation.  TLC's integers are 32 bits wide, two's           *)
(* complement.  A std::uint32_t is therefore held as the int with the same  *)
(* 32-bit pattern: the values 2^31 .. 2^32-1 appear as -2^31 .. -1.  The    *)
(* conversions int <-> std::uint32_t of the source are then the identity,   *)
(* unsigned comparisons are written with ULE/ULT, and wrapping arithmetic   *)
(* is spelled out (shl, add32).  \div and % are floor division, so           *)
(* (v \div 2^i) % 2 is bit i of the pattern for every i < 31.               *)
(***************************************************************************)
EXTENDS Integers, Sequences, FiniteSets, TLC

VARIABLES
    image,          \* the bytes of the input file from sh_offset of .text on
    text_size,      \* sh_size of the .text section header
    tags,           \* std::map<uint32_t, string> built by calc_tags
    cursor,         \* in.tellg() - text_offset
    status,         \* "start" | "running" (in parse_text) | "done" (parse_text
                    \* returned) | "finished" (parse returned) | "aborted" (an
                    \* exception left parse) | "crashed"
    error,          \* what() of the exception that ended the run, else ""
    out,            \* the lines written to the output file, in order
    buf,            \* the static char buf[4][MAX_LENGTH] of print_cmd
    iter,           \* the locals of the last loop iteration of parse_text
    call,           \* arguments of a direct call of the bit extractors
    ret,            \* its outcome
    elf,            \* the command line and the input file outside .text
    exit            \* how the process ended ("none" yet, "returned" from main
                    \* or by a "signal"), its exit code and its stdout

vars == <<image, text_size, tags, cursor, status, error, out, buf, iter, call, ret,
          elf, exit>>

-----------------------------------------------------------------------------
(* 32-bit patterns *)

INT_MIN == -2147483647 - 1

\* 2^k as a 32-bit pattern: 1 << k, bit 31 being the sign bit of the pattern
Pow2(k) == IF k = 31 THEN INT_MIN ELSE 2^k

\* (v >> i) & 1 for a 32-bit pattern v and 0 <= i <= 31
Bit(v, i) == IF i = 31 THEN (IF v < 0 THEN 1 ELSE 0) ELSE (v \div 2^i) % 2

\* unsigned a <= b, a < b on 32-bit patterns
ULE(a, b) == IF (a < 0) = (b < 0) THEN a <= b ELSE b < 0
ULT(a, b) == a # b /\ ULE(a, b)

\* (std::uint32_t) x << k, 0 <= k <= 31: the bits shifted past bit 31 are lost
shl(x, k) ==
    IF k = 0 THEN x
    ELSE (x % 2^(31 - k)) * 2^k + (IF Bit(x, 31 - k) = 1 THEN INT_MIN ELSE 0)

-----------------------------------------------------------------------------
(* std::to_string *)

Digit(d) ==
    CASE d = 0 -> "0" [] d = 1 -> "1" [] d = 2 -> "2" [] d = 3 -> "3"
      [] d = 4 -> "4" [] d = 5 -> "5" [] d = 6 -> "6" [] d = 7 -> "7"
      [] d = 8 -> "8" [] d = 9 -> "9"

\* the decimal digits of n > 0, "" for 0
RECURSIVE DecDigits(_)
DecDigits(n) == IF n = 0 THEN "" ELSE DecDigits(n \div 10) \o Digit(n % 10)

\* the decimal digits of -n for n < 0, "" for 0 (INT_MIN has no negation)
RECURSIVE DecDigitsNeg(_)
DecDigitsNeg(n) ==
    IF n = 0 THEN ""
    ELSE LET m == n % 10
             q == n \div 10
         IN  IF m = 0 THEN DecDigitsNeg(q) \o "0"
             ELSE DecDigitsNeg(q + 1) \o Digit(10 - m)

\* std::to_string(int)
to_string(n) ==
    IF n = 0 THEN "0"
    ELSE IF n > 0 THEN DecDigits(n)
    ELSE "-" \o DecDigitsNeg(n)

\* std::to_string(unsigned) of a 32-bit pattern: 2^32 + v = 10 * 429496729 + 6 + v
to_string_u(v) ==
    IF v >= 0 THEN to_string(v)
    ELSE DecDigits(429496729 + ((v + 6) \div 10)) \o Digit((v + 6) % 10)

-----------------------------------------------------------------------------
(* get_segment: the bits r..l of cmd as a string of '0'/'1', bit r first.  *)
(* Both overloads (uint16_t, uint32_t) take the same substring.            *)

RECURSIVE get_segment(_, _, _)
get_segment(cmd, l, r) ==
    IF r < l THEN ""
    ELSE (IF Bit(cmd, r) = 1 THEN "1" ELSE "0") \o get_segment(cmd, l, r - 1)

-----------------------------------------------------------------------------
(* get_unsigned / get_signed *)

\* The iterations i = a .. b of the loop of get_unsigned,
\*   for (std::size_t i = l; i <= r; i++)
\*       if ((value >> i) & 1) result |= 1 << (i - l);
\* as the bits they set in result.  Iteration i sets bit i - l alone, so the
\* iterations of a range set the bits of its two halves.
RECURSIVE get_unsigned_loop(_, _, _, _)
get_unsigned_loop(value, l, a, b) ==
    IF a > b THEN 0
    ELSE IF a = b THEN (IF Bit(value, a) = 1 THEN Pow2(a - l) ELSE 0)
    ELSE get_unsigned_loop(value, l, a, (a + b) \div 2)
            + get_unsigned_loop(value, l, (a + b) \div 2 + 1, b)

\* The int r is converted to std::size_t for the comparison i <= r: a negative
\* r becomes SIZE_MAX + 1 + r, which no i of the iterations up to 31 exceeds,
\* and the iteration with i = 32 shifts a 32-bit value by 32: undefined
\* behaviour (ub), after which the loop has 2^64 - 33 more iterations to go.
get_unsigned_run(value, l, r) ==
    IF r >= 0 THEN [ub |-> FALSE, val |-> get_unsigned_loop(value, l, l, r)]
    ELSE [ub |-> TRUE, val |-> get_unsigned_loop(value, l, l, 31)]

\* the iterations i = a .. b of the loop of get_signed, taken when bit r is set,
\*   for (int i = l; i < r; i++)
\*       if (!((value >> i) & 1)) result |= 1 << (i - l);
RECURSIVE get_signed_loop(_, _, _, _)
get_signed_loop(value, l, a, b) ==
    IF a > b THEN 0
    ELSE IF a = b THEN (IF Bit(value, a) = 0 THEN Pow2(a - l) ELSE 0)
    ELSE get_signed_loop(value, l, a, (a + b) \div 2)
            + get_signed_loop(value, l, (a + b) \div 2 + 1, b)

get_signed_run(value, l, r) ==
    IF Bit(value, r) = 1
    THEN [ub |-> FALSE, val |-> -get_signed_loop(value, l, l, r - 1) - 1]
    ELSE get_unsigned_run(value, l, r - 1)

\* the value a call returns where its loop is defined (every call of parse_text)
get_unsigned(value, l, r) == get_unsigned_run(value, l, r).val

get_signed(value, l, r) == get_signed_run(value, l, r).val

-----------------------------------------------------------------------------
(* get_reg *)

\* the result standing for `throw std::invalid_argument("unknown register")`
unknown_register == "throw: unknown register"

\* id is a std::uint32_t: a negative pattern is a value above 2^31
get_reg(id) ==
    IF id = 0 THEN "zero"
    ELSE IF id = 1 THEN "ra"
    ELSE IF id = 2 THEN "sp"
    ELSE IF id = 3 THEN "gp"
    ELSE IF id = 4 THEN "tp"
    ELSE IF ULE(5, id) /\ ULE(id, 7) THEN "t" \o to_string_u(id - 5)
    ELSE IF id = 8 \/ id = 9 THEN "s" \o to_string_u(id - 8)
    ELSE IF ULE(10, id) /\ ULE(id, 17) THEN "a" \o to_string_u(id - 10)
    ELSE IF ULE(18, id) /\ ULE(id, 27) THEN "s" \o to_string_u(id - 16)
    ELSE IF ULE(28, id) /\ ULE(id, 31) THEN "t" \o to_string_u(id - 25)
    ELSE unknown_register

-----------------------------------------------------------------------------
(* The label lookup of the jump and branch decoders:                       *)
(*   if (tags.count(adr + value)) tags[adr + value] else to_string(value)  *)
(* adr is a std::uint32_t, value an int: the sum wraps at 32 bits.         *)

add32(a, b) ==
    IF a >= 0 /\ b >= 0 /\ a > 2147483647 - b THEN (a + INT_MIN) + (b + INT_MIN)
    ELSE IF a < 0 /\ b < 0 /\ a < INT_MIN - b THEN (a - INT_MIN) + (b - INT_MIN)
    ELSE a + b

count(tgs, key) == key \in DOMAIN tgs

label_or_value(tgs, adr, value) ==
    IF count(tgs, add32(adr, value)) THEN tgs[add32(adr, value)]
    ELSE to_string(value)

-----------------------------------------------------------------------------
(* The decoders of parse_text.  Each gives the locals the branch leaves:   *)
(* cmd_name ("" when no sub-case matched), args and is_load_store.         *)

Decoded(name, a, ls) == [cmd_name |-> name, args |-> a, is_load_store |-> ls]

\* get_segment(cmd16, 0, 1) == "00"
quadrant0(cmd16) ==
    LET type == get_segment(cmd16, 13, 15) IN
    IF type = "000" THEN
        LET value == shl(get_unsigned(cmd16, 11, 12), 4)
                        + shl(get_unsigned(cmd16, 7, 10), 6)
                        + shl(get_unsigned(cmd16, 6, 6), 2)
                        + shl(get_unsigned(cmd16, 5, 5), 3)
        IN  Decoded("c.addi4spn",
                    << get_reg(get_unsigned(cmd16, 2, 4) + 8),
                       get_reg(2),
                       to_string_u(value) >>,
                    FALSE)
    ELSE IF type = "001" \/ type = "011" \/ type = "101" THEN
        LET value == shl(get_unsigned(cmd16, 10, 12), 3)
                        + shl(get_unsigned(cmd16, 5, 6), 6)
        IN  Decoded(IF type = "001" THEN "c.fld"
                    ELSE IF type = "011" THEN "c.ld"
                    ELSE "c.fsd",
                    << get_reg(get_unsigned(cmd16, 2, 4) + 8),
                       to_string_u(value),
                       get_reg(get_unsigned(cmd16, 7, 9) + 8) >>,
                    TRUE)
    ELSE IF type = "010" \/ type = "011" \/ type = "110" \/ type = "111" THEN
        LET value == shl(get_unsigned(cmd16, 10, 12), 3)
                        + shl(get_unsigned(cmd16, 6, 6), 2)
                        + shl(get_unsigned(cmd16, 5, 5), 6)
        IN  Decoded(IF type = "010" THEN "c.lw"
                    ELSE IF type = "011" THEN "c.flw"
                    ELSE IF type = "110" THEN "c.sw"
                    ELSE "c.fsw",
                    << get_reg(get_unsigned(cmd16, 2, 4) + 8),
                       to_string_u(value),
                       get_reg(get_unsigned(cmd16, 7, 9) + 8) >>,
                    TRUE)
    ELSE Decoded("", <<>>, FALSE)

\* the immediate of c.jal and c.j
cj_uvalue(cmd16) ==
    shl(get_unsigned(cmd16, 12, 12), 11)
        + shl(get_unsigned(cmd16, 11, 11), 4)
        + shl(get_unsigned(cmd16, 9, 10), 8)
        + shl(get_unsigned(cmd16, 8, 8), 10)
        + shl(get_unsigned(cmd16, 7, 7), 6)
        + shl(get_unsigned(cmd16, 6, 6), 7)
        + shl(get_unsigned(cmd16, 3, 5), 1)
        + shl(get_unsigned(cmd16, 2, 2), 5)

\* the immediate of c.beqz and c.bnez
cb_uvalue(cmd16) ==
    shl(get_unsigned(cmd16, 12, 12), 8)
        + shl(get_unsigned(cmd16, 10, 11), 3)
        + shl(get_unsigned(cmd16, 5, 6), 6)
        + shl(get_unsigned(cmd16, 3, 4), 1)
        + shl(get_unsigned(cmd16, 2, 2), 5)

\* {cmd16[12], cmd16[6:2]}: the 6-bit immediate of c.addi, c.li, c.andi, shifts
ci_uvalue(cmd16) == shl(get_unsigned(cmd16, 12, 12), 5) + get_unsigned(cmd16, 2, 6)

\* quadrant 1, type "100"
quadrant1_arith(cmd16) ==
    LET rd == get_reg(get_unsigned(cmd16, 7, 9) + 8)
        sub == get_segment(cmd16, 10, 11)
    IN
    IF sub = "00" THEN
        Decoded("c.srli", << rd, rd, to_string_u(ci_uvalue(cmd16)) >>, FALSE)
    ELSE IF sub = "01" THEN
        Decoded("c.srai", << rd, rd, to_string_u(ci_uvalue(cmd16)) >>, FALSE)
    ELSE IF sub = "10" THEN
        Decoded("c.andi",
                << rd, rd, to_string(get_signed(ci_uvalue(cmd16), 0, 5)) >>, FALSE)
    ELSE
        LET type2 == get_segment(cmd16, 12, 12) \o get_segment(cmd16, 5, 6) IN
        Decoded(IF type2 = "000" THEN "c.sub"
                ELSE IF type2 = "001" THEN "c.xor"
                ELSE IF type2 = "010" THEN "c.or"
                ELSE IF type2 = "011" THEN "c.and"
                ELSE IF type2 = "100" THEN "c.subw"
                ELSE IF type2 = "101" THEN "c.addw"
                ELSE "",
                << rd, rd, get_reg(get_unsigned(cmd16, 2, 4) + 8) >>, FALSE)

\* get_segment(cmd16, 0, 1) == "01"
quadrant1(cmd16, adr, tgs) ==
    IF get_segment(cmd16, 2, 15) = "00000000000000" THEN Decoded("c.nop", <<>>, FALSE)
    ELSE
    LET type == get_segment(cmd16, 13, 15) IN
    IF type = "000" THEN
        Decoded("c.addi",
                << get_reg(get_unsigned(cmd16, 7, 11)),
                   get_reg(get_unsigned(cmd16, 7, 11)),
                   to_string(get_signed(ci_uvalue(cmd16), 0, 5)) >>, FALSE)
    ELSE IF type = "001" THEN
        Decoded("c.jal",
                << label_or_value(tgs, adr, get_signed(cj_uvalue(cmd16), 0, 11)) >>,
                FALSE)
    ELSE IF type = "010" THEN
        Decoded("c.li",
                << get_reg(get_unsigned(cmd16, 7, 11)),
                   to_string(get_signed(ci_uvalue(cmd16), 0, 5)) >>, FALSE)
    ELSE IF type = "011" /\ get_unsigned(cmd16, 7, 11) = 2 THEN
        LET uvalue == shl(get_unsigned(cmd16, 12, 12), 9)
                        + shl(get_unsigned(cmd16, 6, 6), 4)
                        + shl(get_unsigned(cmd16, 5, 5), 6)
                        + shl(get_unsigned(cmd16, 3, 4), 7)
                        + shl(get_unsigned(cmd16, 2, 2), 5)
        IN  Decoded("c.addi16sp",
                    << get_reg(2), get_reg(2), to_string(get_signed(uvalue, 0, 9)) >>,
                    FALSE)
    ELSE IF type = "011" THEN
        LET value == get_signed(shl(get_unsigned(cmd16, 12, 12), 17)
                                    + shl(get_unsigned(cmd16, 2, 6), 12), 0, 17)
        IN  Decoded("c.lui",
                    << get_reg(get_unsigned(cmd16, 7, 11)), to_string(value) >>, FALSE)
    ELSE IF type = "100" THEN quadrant1_arith(cmd16)
    ELSE IF type = "101" THEN
        Decoded("c.j",
                << label_or_value(tgs, adr, get_signed(cj_uvalue(cmd16), 0, 11)) >>,
                FALSE)
    ELSE \* type == "110" || type == "111"
        Decoded(IF type = "110" THEN "c.beqz" ELSE "c.bnez",
                << get_reg(get_unsigned(cmd16, 7, 9) + 8),
                   label_or_value(tgs, adr, get_signed(cb_uvalue(cmd16), 0, 8)) >>,
                FALSE)

\* the uimm of c.lwsp and c.flwsp
lwsp_uvalue(cmd16) ==
    shl(get_unsigned(cmd16, 12, 12), 5)
        + shl(get_unsigned(cmd16, 4, 6), 2)
        + shl(get_unsigned(cmd16, 2, 3), 6)

\* quadrant 2, type "100"
quadrant2_jump_move(cmd16) ==
    IF get_segment(cmd16, 2, 6) # "00000" THEN
        IF get_segment(cmd16, 12, 12) = "1" THEN
            Decoded("c.add",
                    << get_reg(get_unsigned(cmd16, 7, 11)),
                       get_reg(get_unsigned(cmd16, 7, 11)),
                       get_reg(get_unsigned(cmd16, 2, 6)) >>, FALSE)
        ELSE
            Decoded("c.mv",
                    << get_reg(get_unsigned(cmd16, 7, 11)),
                       get_reg(get_unsigned(cmd16, 2, 6)) >>, FALSE)
    ELSE IF get_segment(cmd16, 7, 15) = "100100000" THEN
        Decoded("c.ebreak", <<>>, FALSE)
    ELSE
        Decoded(IF get_segment(cmd16, 12, 12) = "0" THEN "c.jr" ELSE "c.jalr",
                << get_reg(get_unsigned(cmd16, 7, 11)) >>, FALSE)

\* get_segment(cmd16, 0, 1) == "10"
quadrant2(cmd16) ==
    LET type == get_segment(cmd16, 13, 15) IN
    IF type = "000" THEN
        Decoded("c.slli",
                << get_reg(get_unsigned(cmd16, 7, 11)),
                   get_reg(get_unsigned(cmd16, 7, 11)),
                   to_string_u(ci_uvalue(cmd16)) >>, FALSE)
    ELSE IF type = "001" THEN
        LET uvalue == shl(get_unsigned(cmd16, 12, 12), 5)
                        + shl(get_unsigned(cmd16, 5, 6), 3)
                        + shl(get_unsigned(cmd16, 2, 4), 6)
        IN  Decoded("c.fldsp",
                    << get_reg(get_unsigned(cmd16, 7, 11)), to_string_u(uvalue),
                       get_reg(2) >>, TRUE)
    ELSE IF type = "010" THEN
        Decoded("c.lwsp",
                << get_reg(get_unsigned(cmd16, 7, 11)), to_string_u(lwsp_uvalue(cmd16)),
                   get_reg(2) >>, TRUE)
    ELSE IF type = "011" THEN
        Decoded("c.flwsp",
                << get_reg(get_unsigned(cmd16, 7, 11)), to_string_u(lwsp_uvalue(cmd16)),
                   get_reg(2) >>, TRUE)
    ELSE IF type = "100" THEN quadrant2_jump_move(cmd16)
    ELSE IF type = "101" THEN
        LET uvalue == shl(get_unsigned(cmd16, 10, 12), 3)
                        + shl(get_unsigned(cmd16, 7, 9), 6)
        IN  Decoded("c.fsdsp",
                    << get_reg(get_unsigned(cmd16, 2, 6)), to_string_u(uvalue),
                       get_reg(2) >>, TRUE)
    ELSE
        LET uvalue == shl(get_unsigned(cmd16, 9, 12), 2)
                        + shl(get_unsigned(cmd16, 7, 8), 6)
        IN  Decoded(IF type = "110" THEN "c.swsp" ELSE "c.fswsp",
                    << get_reg(get_unsigned(cmd16, 2, 6)), to_string_u(uvalue),
                       get_reg(2) >>, TRUE)

-----------------------------------------------------------------------------
(* The 32-bit decoders: one per opcode branch of parse_text *)

\* the 20-bit immediate rendered without the shift by 12
upper_imm_unshifted(name, cmd32) ==
    Decoded(name,
            << get_reg(get_unsigned(cmd32, 7, 11)),
               to_string(get_signed(get_unsigned(cmd32, 12, 31), 0, 19)) >>,
            FALSE)

\* lui and auipc
upper_imm(name, cmd32) ==
    Decoded(name,
            << get_reg(get_unsigned(cmd32, 7, 11)),
               to_string(get_signed(shl(get_unsigned(cmd32, 12, 31), 12), 0, 31)) >>,
            FALSE)

\* opcode 0010011
op_imm(cmd32) ==
    LET type == get_segment(cmd32, 12, 14) IN
    IF type # "001" /\ type # "101" THEN
        Decoded(IF type = "000" THEN "addi"
                ELSE IF type = "010" THEN "slti"
                ELSE IF type = "011" THEN "sltiu"
                ELSE IF type = "100" THEN "xori"
                ELSE IF type = "110" THEN "ori"
                ELSE IF type = "111" THEN "andi"
                ELSE "",
                << get_reg(get_unsigned(cmd32, 7, 11)),
                   get_reg(get_unsigned(cmd32, 15, 19)),
                   to_string(get_signed(get_unsigned(cmd32, 20, 31), 0, 11)) >>,
                FALSE)
    ELSE
        Decoded(IF type = "001" THEN "slli"
                ELSE IF get_segment(cmd32, 30, 30) = "0" THEN "srli"
                ELSE "srai",
                << get_reg(get_unsigned(cmd32, 7, 11)),
                   get_reg(get_unsigned(cmd32, 15, 19)),
                   to_string_u(get_unsigned(cmd32, 20, 24)) >>,
                FALSE)

\* bit 30 alone, the other bits of [31:27] taken as 0
funct7_bit30(cmd32) == "0" \o get_segment(cmd32, 30, 30) \o "000"

\* the bits [31:27] the funct2 = 00 sub-branch joins to funct3
funct7_high(cmd32) == get_segment(cmd32, 27, 31)

\* opcode 0110011
op_reg(cmd32) ==
    LET rrr == << get_reg(get_unsigned(cmd32, 7, 11)),
                  get_reg(get_unsigned(cmd32, 15, 19)),
                  get_reg(get_unsigned(cmd32, 20, 24)) >>
    IN
    IF get_segment(cmd32, 25, 26) = "00" THEN
        LET type == funct7_high(cmd32) \o get_segment(cmd32, 12, 14) IN
        Decoded(IF type = "00000000" THEN "add"
                ELSE IF type = "01000000" THEN "sub"
                ELSE IF type = "00000001" THEN "sll"
                ELSE IF type = "00000010" THEN "slt"
                ELSE IF type = "00000011" THEN "sltu"
                ELSE IF type = "00000100" THEN "xor"
                ELSE IF type = "00000101" THEN "srl"
                ELSE IF type = "01000101" THEN "sra"
                ELSE IF type = "00000110" THEN "or"
                ELSE IF type = "00000111" THEN "and"
                ELSE "",
                rrr, FALSE)
    ELSE IF get_segment(cmd32, 25, 26) = "01" THEN
        LET type == get_segment(cmd32, 12, 14) IN
        Decoded(IF type = "000" THEN "mul"
                ELSE IF type = "001" THEN "mulh"
                ELSE IF type = "010" THEN "mulhsu"
                ELSE IF type = "011" THEN "mulhu"
                ELSE IF type = "100" THEN "div"
                ELSE IF type = "101" THEN "divu"
                ELSE IF type = "110" THEN "rem"
                ELSE "remu",
                rrr, FALSE)
    ELSE Decoded("", <<>>, FALSE)

\* opcode 0000011
load(cmd32) ==
    LET type == get_segment(cmd32, 12, 14) IN
    Decoded(IF type = "000" THEN "lb"
            ELSE IF type = "001" THEN "lh"
            ELSE IF type = "010" THEN "lw"
            ELSE IF type = "100" THEN "lbu"
            ELSE IF type = "101" THEN "lhu"
            ELSE "",
            << get_reg(get_unsigned(cmd32, 7, 11)),
               to_string(get_signed(cmd32, 20, 31)),
               get_reg(get_unsigned(cmd32, 15, 19)) >>,
            TRUE)

\* opcode 0100011
store(cmd32) ==
    LET type == get_segment(cmd32, 12, 14) IN
    Decoded(IF type = "000" THEN "sb"
            ELSE IF type = "001" THEN "sh"
            ELSE IF type = "010" THEN "sw"
            ELSE "",
            << get_reg(get_unsigned(cmd32, 20, 24)),
               to_string(get_signed(shl(get_unsigned(cmd32, 25, 31), 5)
                                        + get_unsigned(cmd32, 7, 11), 0, 11)),
               get_reg(get_unsigned(cmd32, 15, 19)) >>,
            TRUE)

\* the immediate of jal
jal_uvalue(cmd32) ==
    shl(get_unsigned(cmd32, 31, 31), 20)
        + shl(get_unsigned(cmd32, 21, 30), 1)
        + shl(get_unsigned(cmd32, 20, 20), 11)
        + shl(get_unsigned(cmd32, 12, 19), 12)

\* the register index the jal branch hands to get_reg: get_signed(cmd32, 7, 11)
jal_rd(cmd32) == get_signed(cmd32, 7, 11)

\* opcode 1101111
jal(cmd32, adr, tgs) ==
    Decoded("jal",
            << get_reg(jal_rd(cmd32)),
               label_or_value(tgs, adr, get_signed(jal_uvalue(cmd32), 0, 20)) >>,
            FALSE)

\* opcode 1100111
jalr(cmd32) ==
    Decoded("jalr",
            << get_reg(get_unsigned(cmd32, 7, 11)),
               get_reg(get_unsigned(cmd32, 15, 19)),
               to_string(get_signed(get_unsigned(cmd32, 20, 31), 0, 11)) >>,
            FALSE)

\* the immediate of the branches
branch_uvalue(cmd32) ==
    shl(get_unsigned(cmd32, 31, 31), 12)
        + shl(get_unsigned(cmd32, 25, 30), 5)
        + shl(get_unsigned(cmd32, 8, 11), 1)
        + shl(get_unsigned(cmd32, 7, 7), 11)

\* opcode 1100011
branch(cmd32, adr, tgs) ==
    LET type == get_segment(cmd32, 12, 14) IN
    Decoded(IF type = "000" THEN "beq"
            ELSE IF type = "001" THEN "bne"
            ELSE IF type = "100" THEN "blt"
            ELSE IF type = "101" THEN "bge"
            ELSE IF type = "110" THEN "bltu"
            ELSE IF type = "111" THEN "bgeu"
            ELSE "",
            << get_reg(get_unsigned(cmd32, 15, 19)),
               get_reg(get_unsigned(cmd32, 20, 24)),
               label_or_value(tgs, adr, get_signed(branch_uvalue(cmd32), 0, 12)) >>,
            FALSE)

\* the opcodes whose branch calls get_cmd32: the else-if chain after the quadrants
cmd32_opcodes ==
    { "0110111", "0010111", "0010011", "0110011", "0000011",
      "0100011", "1101111", "1100111", "1100011" }

\* whether the iteration that read cmd16 goes on to call get_cmd32
reads_cmd32(cmd16) ==
    /\ get_segment(cmd16, 0, 1) \notin {"00", "01", "10"}
    /\ get_segment(cmd16, 0, 6) \in cmd32_opcodes

\* get_cmd32: cmd32 = (cmd16 << 16) | cmd32, high the half-word read next.
\* high << 16 is computed in int: a high half with bit 15 set lands in the
\* sign bit, the pattern every build produces (and C++20 defines).
get_cmd32(high, cmd16) == shl(high, 16) + cmd16

\* the if / else-if chain of one iteration; high is what get_cmd32 reads
decode(cmd16, high, adr, tgs) ==
    LET op    == get_segment(cmd16, 0, 6)
        cmd32 == get_cmd32(high, cmd16)
    IN
    IF get_segment(cmd16, 0, 1) = "00" THEN quadrant0(cmd16)
    ELSE IF get_segment(cmd16, 0, 1) = "01" THEN quadrant1(cmd16, adr, tgs)
    ELSE IF get_segment(cmd16, 0, 1) = "10" THEN quadrant2(cmd16)
    ELSE IF op = "0110111" THEN upper_imm("lui", cmd32)
    ELSE IF op = "0010111" THEN upper_imm("auipc", cmd32)
    ELSE IF op = "0010011" THEN op_imm(cmd32)
    ELSE IF op = "0110011" THEN op_reg(cmd32)
    ELSE IF op = "0000011" THEN load(cmd32)
    ELSE IF op = "0100011" THEN store(cmd32)
    ELSE IF op = "1101111" THEN jal(cmd32, adr, tgs)
    ELSE IF op = "1100111" THEN jalr(cmd32)
    ELSE IF op = "1100011" THEN branch(cmd32, adr, tgs)
    ELSE Decoded("", <<>>, FALSE)

-----------------------------------------------------------------------------
(* print_cmd *)

HexDigit(d) ==
    CASE d < 10 -> Digit(d)
      [] d = 10 -> "a" [] d = 11 -> "b" [] d = 12 -> "c"
      [] d = 13 -> "d" [] d = 14 -> "e" [] d = 15 -> "f"

\* sprintf "%08x" of a 32-bit pattern
Hex8(v) ==
    HexDigit((v \div 2^28) % 16) \o HexDigit((v \div 2^24) % 16)
        \o HexDigit((v \div 2^20) % 16) \o HexDigit((v \div 2^16) % 16)
        \o HexDigit((v \div 2^12) % 16) \o HexDigit((v \div 2^8) % 16)
        \o HexDigit((v \div 2^4) % 16) \o HexDigit(v % 16)

RECURSIVE Spaces(_)
Spaces(n) == IF n <= 0 THEN "" ELSE " " \o Spaces(n - 1)

\* what print_cmd writes before the instruction: the address, then 13 spaces or
\* the tag by "%08x %10s: " (right-justified in 10 columns)
print_title(adr, tag) ==
    IF tag = "" THEN Hex8(adr) \o Spaces(13)
    ELSE Hex8(adr) \o " " \o Spaces(10 - Len(tag)) \o tag \o ": "

\* the result standing for the default case of the switch of print_cmd
wrong_number_of_arguments == "throw: wrong number of arguments for print_cmd function"

\* sprintf(buf[n - 1], print_format[is_load_store][n - 1], args...), n = args.size()
print_format(is_load_store, args) ==
    IF is_load_store THEN
        CASE Len(args) = 1 -> args[1] \o "()\n"
          [] Len(args) = 2 -> args[1] \o "(" \o args[2] \o ")\n"
          [] Len(args) = 3 -> args[1] \o " " \o args[2] \o "(" \o args[3] \o ")\n"
          [] Len(args) = 4 -> args[1] \o " " \o args[2] \o ", " \o args[3]
                                  \o "(" \o args[4] \o ")\n"
          [] OTHER -> wrong_number_of_arguments
    ELSE
        CASE Len(args) = 1 -> args[1] \o "\n"
          [] Len(args) = 2 -> args[1] \o " " \o args[2] \o "\n"
          [] Len(args) = 3 -> args[1] \o " " \o args[2] \o ", " \o args[3] \o "\n"
          [] Len(args) = 4 -> args[1] \o " " \o args[2] \o ", " \o args[3]
                                  \o ", " \o args[4] \o "\n"
          [] OTHER -> wrong_number_of_arguments

\* the line print_cmd leaves in the output: args[1] is the mnemonic
Line(adr, tag, args, is_load_store, body) ==
    [kind |-> "cmd", adr |-> adr, tag |-> tag, args |-> args,
     is_load_store |-> is_load_store, text |-> print_title(adr, tag) \o body]

\* the line written when cmd_name is empty
unknown_command == [kind |-> "placeholder", text |-> "unknown_command\n"]

-----------------------------------------------------------------------------
(* The input file *)

\* the two bytes of a half-word, little-endian
HalfBytes(h) == << h % 256, h \div 256 >>

\* in.read(&cmd16, 2) at offset pos (from the start of .text) of the bytes img
read16(img, pos) == img[pos + 1] + 256 * img[pos + 2]

\* the read succeeds: main.cpp sets failbit | eofbit to throw
can_read16(img, pos) == pos + 2 <= Len(img)

ios_failure == "Failed to read input file"

-----------------------------------------------------------------------------
(* The driver loop of parse_text *)

\* an args initializer threw inside get_reg
Thrown(args) == \E i \in DOMAIN args : args[i] = unknown_register

\* while (static_cast<uint32_t>(in.tellg()) - text_offset < text_size)
LoopGuard == status = "running" /\ ULT(cursor, text_size)

\* auto tag = (tags.count(adr) ? tags[adr] : "")
TagAt(adr) == IF count(tags, adr) THEN tags[adr] ELSE ""

\* std::map::operator[]: a key the map does not hold is inserted with an
\* empty string
map_index(tgs, key) == IF key \in DOMAIN tgs THEN tgs ELSE (key :> "") @@ tgs

\* a lookup by operator[] with no test of tags.count(key) before it
tags_lookup_unguarded(tgs, key) == map_index(tgs, key)

\* the map after `tags.count(key) ? tags[key] : ...`: operator[] runs only
\* for a key the map holds
tags_lookup(tgs, key) == IF count(tgs, key) THEN map_index(tgs, key) ELSE tgs

\* the address adr + value the branch taken looks up in tags, if it gets
\* that far: c.jal, c.j, c.beqz, c.bnez, jal (after get_reg) and the branches
jump_target(cmd16, high, adr) ==
    LET cmd32 == get_cmd32(high, cmd16)
        type  == get_segment(cmd16, 13, 15)
        op    == get_segment(cmd16, 0, 6)
    IN
    IF get_segment(cmd16, 0, 1) = "01" /\ type \in {"001", "101"}
    THEN { add32(adr, get_signed(cj_uvalue(cmd16), 0, 11)) }
    ELSE IF get_segment(cmd16, 0, 1) = "01" /\ type \in {"110", "111"}
    THEN { add32(adr, get_signed(cb_uvalue(cmd16), 0, 8)) }
    ELSE IF get_segment(cmd16, 0, 1) # "11" THEN {}
    ELSE IF op = "1101111" /\ get_reg(jal_rd(cmd32)) # unknown_register
    THEN { add32(adr, get_signed(jal_uvalue(cmd32), 0, 20)) }
    ELSE IF op = "1100011"
    THEN { add32(adr, get_signed(branch_uvalue(cmd32), 0, 12)) }
    ELSE {}

\* tags after the lookups of one iteration: the title's at adr, then the
\* target's of the branch taken
tags_after(tgs, adr, targets) ==
    IF targets = {} THEN tags_lookup(tgs, adr)
    ELSE tags_lookup(tags_lookup(tgs, adr), CHOOSE key \in targets : TRUE)

\* the first read of the iteration, or the read of get_cmd32, runs past the end
\* of the file
ReadPastEnd ==
    IF can_read16(image, cursor)
    THEN reads_cmd32(read16(image, cursor)) /\ ~can_read16(image, cursor + 2)
    ELSE TRUE

\* an iteration that leaves the stream where it found it
consumed_none(read32) == 0

\* get_cmd32 reading a whole 4-byte word after the half-word
consumed_word(read32) == 2 + (IF read32 THEN 4 ELSE 0)

\* the loop reading one byte (sizeof(char)) for the half-word
consumed_byte(read32) == 1 + (IF read32 THEN 2 ELSE 0)

\* the bytes an iteration reads: in.read(&cmd16, 2) in the loop, and the
\* in.read(&cmd16, 2) of get_cmd32 when the branch taken calls it
consumed(read32) == 2 + (IF read32 THEN 2 ELSE 0)

\* the locals at the end of an iteration that read cmd16 and, with read32,
\* called get_cmd32 (cmd32 is uninitialized, here 0, when it did not)
Locals(cmd16, read32, cmd32, d) ==
    [n |-> iter.n + 1, adr |-> cursor, tag |-> TagAt(cursor),
     cmd16 |-> cmd16, read32 |-> read32, cmd32 |-> cmd32,
     cmd_name |-> d.cmd_name, args |-> d.args, is_load_store |-> d.is_load_store]

NoLocals ==
    [n |-> 0, adr |-> 0, tag |-> "", cmd16 |-> 0, read32 |-> FALSE, cmd32 |-> 0,
     cmd_name |-> "", args |-> <<>>, is_load_store |-> FALSE]

\* in.read throws std::ios_base::failure; main prints and returns 1
ReadFails ==
    /\ status' = "aborted"
    /\ error' = ios_failure
    /\ cursor' = Len(image)
    /\ iter' = [NoLocals EXCEPT !.n = iter.n + 1, !.adr = cursor, !.tag = TagAt(cursor)]
    /\ tags' = tags_after(tags, cursor, {})
    /\ UNCHANGED <<out, buf>>

\* get_reg throws std::invalid_argument; main prints and returns 1
DecodeThrows ==
    /\ status' = "aborted"
    /\ error' = "unknown register"
    /\ UNCHANGED <<out, buf>>

\* the placeholder written by print_cmd, after the address and the tag
EmitUnknownTitled ==
    /\ out' = Append(out, [kind |-> "placeholder",
                           text |-> print_title(cursor, TagAt(cursor))
                                      \o "unknown_command\n"])
    /\ UNCHANGED <<status, error, buf>>

\* cmd_name.empty(): the placeholder is written
EmitUnknown ==
    /\ out' = Append(out, unknown_command)
    /\ UNCHANGED <<status, error, buf>>

\* a formatting that appends to what the buffer holds
strcat(held, text) == held \o text

\* sprintf(buf[n - 1], ...) writes from the start of the buffer and terminates
\* the string: nothing of what the buffer held is left to read
sprintf(held, text) == text

\* args.insert(args.begin(), cmd_name); print_cmd(out, adr, tag, args, is_load_store)
print_cmd(adr, tag, args, is_load_store) ==
    LET body == print_format(is_load_store, args) IN
    IF body = wrong_number_of_arguments
    THEN /\ status' = "aborted"
         /\ error' = "wrong number of arguments for print_cmd function"
         /\ out' = Append(out, [kind |-> "title", text |-> print_title(adr, tag)])
         /\ buf' = buf
    ELSE /\ buf' = [buf EXCEPT ![Len(args)] = sprintf(@, body)]
         /\ out' = Append(out, Line(adr, tag, args, is_load_store, buf'[Len(args)]))
         /\ UNCHANGED <<status, error>>

\* one iteration of the while loop of parse_text (each \E binds one value)
Iterate ==
    /\ LoopGuard
    /\ IF ReadPastEnd THEN ReadFails
       ELSE \E cmd16 \in { read16(image, cursor) } :
            \E read32 \in { reads_cmd32(cmd16) } :
            \E high \in { IF read32 THEN read16(image, cursor + 2) ELSE 0 } :
            \E d \in { decode(cmd16, high, cursor, tags) } :
                /\ cursor' = cursor + consumed(read32)
                /\ tags' = tags_after(tags, cursor, jump_target(cmd16, high, cursor))
                /\ iter' = Locals(cmd16, read32,
                                  IF read32 THEN get_cmd32(high, cmd16) ELSE 0, d)
                /\ IF Thrown(d.args) THEN DecodeThrows
                   ELSE IF d.cmd_name = "" THEN EmitUnknown
                   ELSE print_cmd(cursor, TagAt(cursor),
                                  <<d.cmd_name>> \o d.args, d.is_load_store)
    /\ UNCHANGED <<image, text_size, call, ret, elf, exit>>

\* the loop condition fails: parse_text returns
LoopExit ==
    /\ status = "running"
    /\ ~ULT(cursor, text_size)
    /\ status' = "done"
    /\ UNCHANGED <<image, text_size, tags, cursor, error, out, buf, iter, call, ret,
                   elf, exit>>

Next == Iterate \/ LoopExit

-----------------------------------------------------------------------------
(* Inputs *)

\* the number of half-words of the input streams
MaxHalves == 4

\* Half-words the streams are made of:
\*   1 (0x0001) c.nop
\*   49149 (0xbffd) c.j -2
\*   32768 (0x8000) quadrant 0, funct3 100: no sub-case
\*   111 (0x006f) low half of jal zero
\*   2159 (0x086f) low half of jal with rd = 16
\*   12291 (0x3003) low half of a load with funct3 011: no sub-case
\*   115 (0x0073) low half of ecall: an opcode no branch tests
StreamHalves == {1, 49149, 32768, 111, 2159, 12291, 115}

RECURSIVE Streams(_)
Streams(n) ==
    IF n = 0 THEN { <<>> }
    ELSE { s \o HalfBytes(h) : s \in Streams(n - 1), h \in StreamHalves }

\* the symbol table of the streams: symbols at 0, 4 and 0x10000 and at the top
\* of the address space (0xfffffffe)
Symbols == (0 :> "main") @@ (4 :> "loop") @@ (-2 :> "top") @@ (65536 :> "far")

NoCall == [fn |-> "none", value |-> 0, l |-> 0, r |-> 0]
NoRet == [status |-> "none", val |-> 0]

NoBuf == << "", "", "", "" >>

\* parse_text entered directly: nothing of the command line or of the rest of
\* the file is looked at
NoElf == [argc |-> 3, opens |-> TRUE, complete |-> TRUE, ident |-> <<127, 69, 76, 70>>,
          shnum |-> 4, symtabs |-> <<>>, strtab |-> <<>>]

\* the process has not ended
NoExit == [how |-> "none", code |-> 0, stdout |-> <<>>]

\* parse_text entered: in.seekg(text_offset), nothing written after ".text\n".
\* sh_size is the whole of the bytes, or ends one or two bytes before their
\* end, or claims one byte more than the file holds.
Init ==
    /\ image \in Streams(MaxHalves)
    /\ text_size \in (2 * MaxHalves - 2) .. (2 * MaxHalves + 1)
    /\ tags = Symbols
    /\ cursor = 0
    /\ status = "running"
    /\ error = ""
    /\ out = <<>>
    /\ buf = NoBuf
    /\ iter = NoLocals
    /\ call = NoCall
    /\ ret = NoRet
    /\ elf = NoElf
    /\ exit = NoExit

Spec == Init /\ [][Next]_vars

\* Half-words of the streams the termination of the loop is checked on:
\* c.nop, a half-word and the low halves of two words with no sub-case (one
\* of an opcode no branch tests, one of a load)
LiveHalves == {1, 32768, 115, 12291}

RECURSIVE LiveStreams(_)
LiveStreams(n) ==
    IF n = 0 THEN { <<>> }
    ELSE { s \o HalfBytes(h) : s \in LiveStreams(n - 1), h \in LiveHalves }

\* n half-words (n >= 2): c.nop up to a last word, the jal with rd = 16, on
\* which get_reg throws
RECURSIVE NopsThenJal(_)
NopsThenJal(n) ==
    IF n <= 2 THEN HalfBytes(2159) \o HalfBytes(0)
    ELSE HalfBytes(1) \o NopsThenJal(n - 1)

InitLive ==
    /\ image \in LiveStreams(MaxHalves) \cup { NopsThenJal(MaxHalves) }
    /\ text_size \in (2 * MaxHalves - 2) .. (2 * MaxHalves + 1)
    /\ tags = Symbols
    /\ cursor = 0
    /\ status = "running"
    /\ error = ""
    /\ out = <<>>
    /\ buf = NoBuf
    /\ iter = NoLocals
    /\ call = NoCall
    /\ ret = NoRet
    /\ elf = NoElf
    /\ exit = NoExit

\* the program is sequential and runs on: while parse_text has a step to take
\* (the next iteration or the exit of the loop), it takes it
SpecLive == InitLive /\ [][Next]_vars /\ WF_vars(Next)

-----------------------------------------------------------------------------
(* One instruction, then c.j -2, as the whole of .text: every compressed   *)
(* half-word, and the low halves of 32-bit words with the high halves below *)

\* High halves of 32-bit words:
\*   0 (0x0000); 65535 (0xffff) all ones; 16384 (0x4000) bit 30;
\*   512 (0x0200) bits[26:25] = 01; 1024 (0x0400) bits[26:25] = 10;
\*   2048 (0x0800) bit 27; 32768 (0x8000) bit 31; 165 (0x00a5) rs2 = 10, rs1 = 10/11;
\*   16896 (0x4200) bit 30 with bits[26:25] = 01
HighHalves == {0, 65535, 16384, 512, 1024, 2048, 32768, 165, 16896}

\* the rd fields (bits[11:7]) the low halves take with every high half; with
\* the high halves 0 and 65535 a low half takes every value
RdSample == {0, 1, 8, 15, 16, 31}

\* the symbol table of the single instructions: no symbol at 0
WordSymbols == (2 :> "main") @@ (4 :> "loop") @@ (-2 :> "top")

InitWord ==
    /\ \/ \E h \in { x \in 0 .. 65535 : x % 4 # 3 } :
            image = HalfBytes(h) \o HalfBytes(49149)
       \/ \E lo \in { x \in 0 .. 65535 : x % 4 = 3 }, hi \in HighHalves :
            /\ hi \in {0, 65535} \/ (lo \div 128) % 32 \in RdSample
            /\ image = HalfBytes(lo) \o HalfBytes(hi) \o HalfBytes(49149)
    /\ text_size = Len(image)
    /\ tags = WordSymbols
    /\ cursor = 0
    /\ status = "running"
    /\ error = ""
    /\ out = <<>>
    /\ buf = NoBuf
    /\ iter = NoLocals
    /\ call = NoCall
    /\ ret = NoRet
    /\ elf = NoElf
    /\ exit = NoExit

SpecWord == InitWord /\ [][Next]_vars

-----------------------------------------------------------------------------
(* Direct calls of get_unsigned and get_signed *)

\* 32-bit patterns: 0, 1, -1 (0xffffffff), 0x80000000, 0x7fffffff,
\* 0x5a5a5a5a, 0xa5a5a5a5, 0x00001537
BitValues ==
    {0, 1, -1, INT_MIN, 2147483647, 1515870810, -1515870811, 5431}

InitBits ==
    /\ call \in { [fn |-> f, value |-> v, l |-> l, r |-> r] :
                    f \in {"get_unsigned", "get_signed"}, v \in BitValues,
                    l \in 0 .. 31, r \in 0 .. 31 }
    /\ call.l <= call.r
    /\ ret = [status |-> "pending", val |-> 0]
    /\ image = <<>>
    /\ text_size = 0
    /\ tags = <<>>
    /\ cursor = 0
    /\ status = "idle"
    /\ error = ""
    /\ out = <<>>
    /\ buf = NoBuf
    /\ iter = NoLocals
    /\ elf = NoElf
    /\ exit = NoExit

\* the call runs.  Where the loop of get_unsigned runs into undefined
\* behaviour the build decides what happens: the loop goes on for its
\* remaining 2^64 - 33 iterations and the call does not return ("hang"), or
\* it returns what it has accumulated.
BitsCall ==
    /\ ret.status = "pending"
    /\ \E run \in { IF call.fn = "get_signed"
                    THEN get_signed_run(call.value, call.l, call.r)
                    ELSE get_unsigned_run(call.value, call.l, call.r) } :
          IF run.ub
          THEN ret' \in { [status |-> "hang", val |-> 0],
                          [status |-> "returned", val |-> run.val] }
          ELSE ret' = [status |-> "returned", val |-> run.val]
    /\ UNCHANGED <<image, text_size, tags, cursor, status, error, out, buf, iter, call,
                   elf, exit>>

NextBits == BitsCall

SpecBits == InitBits /\ [][NextBits]_vars

-----------------------------------------------------------------------------
(* The symbol table: get_name, calc_tags, get_type, get_bind, parse_symtab *)

\* the character of a byte 'a' .. 'z'
Chr(b) == SubSeq("abcdefghijklmnopqrstuvwxyz", b - 96, b - 96)

\* the read loop of get_name from the 1-based position pos of strtab, the
\* bytes of the file from the offset of the string table to its end: the
\* characters up to the first '\0', or the failure of in.read at the end of
\* the file
RECURSIVE read_name(_, _)
read_name(strtab, pos) ==
    IF pos > Len(strtab) THEN [fail |-> TRUE, name |-> ""]
    ELSE IF strtab[pos] = 0 THEN [fail |-> FALSE, name |-> ""]
    ELSE [fail |-> read_name(strtab, pos + 1).fail,
          name |-> Chr(strtab[pos]) \o read_name(strtab, pos + 1).name]

\* get_name: offset 0 is the empty name, whatever the string table holds
get_name(strtab, offset_inside_strtab) ==
    IF offset_inside_strtab = 0 THEN [fail |-> FALSE, name |-> ""]
    ELSE read_name(strtab, offset_inside_strtab + 1)

\* tags.insert({key, name}): an entry already at key is kept
tags_insert(tgs, key, name) == tgs @@ (key :> name)

\* tags[key] = name: an entry already at key is overwritten
tags_assign(tgs, key, name) == (key :> name) @@ tgs

\* the inner loop of calc_tags over the entries of one SYMTAB section, from
\* the entry id_in_section (1-based) on: if (!name.empty()) tags[st_value] = name
RECURSIVE calc_tags_section(_, _, _, _)
calc_tags_section(entries, id_in_section, strtab, tgs) ==
    IF id_in_section > Len(entries) THEN [fail |-> FALSE, tags |-> tgs]
    ELSE LET sym == entries[id_in_section]
             name == get_name(strtab, sym.st_name)
         IN  IF name.fail THEN [fail |-> TRUE, tags |-> tgs]
             ELSE calc_tags_section(entries, id_in_section + 1, strtab,
                    IF name.name # ""
                    THEN tags_assign(tgs, sym.st_value, name.name)
                    ELSE tgs)

\* the outer loop of calc_tags over the SYMTAB sections, in the order of the
\* section headers, from section k on
RECURSIVE calc_tags_from(_, _, _, _)
calc_tags_from(symtabs, k, strtab, tgs) ==
    IF k > Len(symtabs) THEN [fail |-> FALSE, tags |-> tgs]
    ELSE LET section == calc_tags_section(symtabs[k], 1, strtab, tgs) IN
         IF section.fail THEN section
         ELSE calc_tags_from(symtabs, k + 1, strtab, section.tags)

calc_tags(symtabs, strtab) == calc_tags_from(symtabs, 1, strtab, <<>>)

unknown_type == "unknown type in symtab"
unknown_bind == "unknown bind in symtab"

\* get_type: x & 0xf
get_type(x) ==
    CASE x % 16 = 0 -> "NOTYPE" [] x % 16 = 1 -> "OBJECT" [] x % 16 = 2 -> "FUNC"
      [] x % 16 = 3 -> "SECTION" [] x % 16 = 4 -> "FILE" [] x % 16 = 5 -> "COMMON"
      [] x % 16 = 6 -> "TLS" [] x % 16 = 10 -> "LOOS" [] x % 16 = 12 -> "HIOS"
      [] x % 16 = 13 -> "LOPROC" [] x % 16 = 15 -> "HIPROC"
      [] OTHER -> unknown_type

\* get_bind: x >> 4, of the std::uint8_t st_info
get_bind(x) ==
    CASE x \div 16 = 0 -> "LOCAL" [] x \div 16 = 1 -> "GLOBAL" [] x \div 16 = 2 -> "WEAK"
      [] x \div 16 = 10 -> "LOOS" [] x \div 16 = 12 -> "HIOS"
      [] x \div 16 = 13 -> "LOPROC" [] x \div 16 = 15 -> "HIPROC"
      [] OTHER -> unknown_bind

\* what the arguments of the sprintf of one symbol can throw: their order of
\* evaluation is unspecified, so each one that throws can be the first
symbol_throws(sym, strtab) ==
    (IF get_type(sym.st_info) = unknown_type THEN {unknown_type} ELSE {})
        \cup (IF get_bind(sym.st_info) = unknown_bind THEN {unknown_bind} ELSE {})
        \cup (IF get_name(strtab, sym.st_name).fail THEN {ios_failure} ELSE {})

\* the line of one symbol (the columns Size, Vis and Index are left out)
symbol_line(id_in_section, sym, strtab) ==
    [kind |-> "symbol", id |-> id_in_section - 1, value |-> sym.st_value,
     type |-> get_type(sym.st_info), bind |-> get_bind(sym.st_info),
     name |-> get_name(strtab, sym.st_name).name]

\* the loops of parse_symtab from entry id_in_section of section k on, lines
\* being what has been written: the lines at the end, and what was thrown
\* (a set: every exception an order of evaluation can throw first)
RECURSIVE parse_symtab_from(_, _, _, _, _)
parse_symtab_from(symtabs, k, id_in_section, strtab, lines) ==
    IF k > Len(symtabs) THEN [thrown |-> {}, lines |-> lines]
    ELSE IF id_in_section > Len(symtabs[k])
    THEN parse_symtab_from(symtabs, k + 1, 1, strtab, lines)
    ELSE IF symbol_throws(symtabs[k][id_in_section], strtab) # {}
    THEN [thrown |-> symbol_throws(symtabs[k][id_in_section], strtab), lines |-> lines]
    ELSE parse_symtab_from(symtabs, k, id_in_section + 1, strtab,
            Append(lines, symbol_line(id_in_section, symtabs[k][id_in_section], strtab)))

symtab_title == [kind |-> "title", text |-> "Symbol Value              Size Type     Bind     Vis       Index Name\n"]

section_line(text) == [kind |-> "section", text |-> text]

-----------------------------------------------------------------------------
(* main and parse, around parse_text *)

wrong_arguments == "wrong number of arguments."
not_elf == "this is not a ELF file"

\* file_header.e_ident[1] != 'E' || e_ident[2] != 'L' || e_ident[3] != 'F'
\* (ident is 1-based: ident[1] is e_ident[0])
bad_ident(ident) == ident[2] # 69 \/ ident[3] # 76 \/ ident[4] # 70

Abort(what) ==
    /\ status' = "aborted"
    /\ error' = what
    /\ UNCHANGED <<tags, out>>

\* main up to the call of parse_text: the arguments, the input stream with
\* exceptions(failbit | eofbit), the header, the section headers, calc_tags.
\* With e_shnum = 0 calc_tags indexes an empty vector, section_headers[0]:
\* undefined behaviour, which ends the process (SIGSEGV) or goes on with
\* whatever it read.
ParseStart ==
    /\ status = "start"
    /\ IF elf.argc < 3 THEN Abort(wrong_arguments)
       ELSE IF ~elf.opens THEN Abort(ios_failure)
       ELSE IF ~elf.complete THEN Abort(ios_failure)
       ELSE IF bad_ident(elf.ident) THEN Abort(not_elf)
       ELSE IF elf.shnum = 0
       THEN /\ status' \in {"crashed", "running"}
            /\ tags' = <<>>
            /\ out' = IF status' = "running" THEN << section_line(".text\n") >> ELSE out
            /\ error' = error
       ELSE \E t \in { calc_tags(elf.symtabs, elf.strtab) } :
              IF t.fail THEN Abort(ios_failure)
              ELSE /\ status' = "running"
                   /\ tags' = t.tags
                   /\ out' = << section_line(".text\n") >>
                   /\ error' = error
    /\ UNCHANGED <<image, text_size, cursor, buf, iter, call, ret, elf, exit>>

\* parse after parse_text: "\n.symtab\n" and parse_symtab.  With e_shnum = 0
\* parse_symtab indexes the empty vector again.
ParseSymtab ==
    /\ status = "done"
    /\ IF elf.shnum = 0
       THEN /\ status' \in {"crashed", "finished"}
            /\ out' = IF status' = "finished"
                      THEN out \o << section_line("\n.symtab\n"), symtab_title >>
                      ELSE Append(out, section_line("\n.symtab\n"))
            /\ error' = error
       ELSE \E p \in { parse_symtab_from(elf.symtabs, 1, 1, elf.strtab,
                          out \o << section_line("\n.symtab\n"), symtab_title >>) } :
              /\ out' = p.lines
              /\ IF p.thrown = {}
                 THEN status' = "finished" /\ error' = error
                 ELSE status' = "aborted" /\ error' \in p.thrown
    /\ UNCHANGED <<image, text_size, tags, cursor, buf, iter, call, ret, elf, exit>>

\* what() of the failure thrown by libstdc++
ios_what == "basic_ios::clear: iostream error"

\* the end of main: the catch clauses print one line and return 1, a run
\* that threw nothing returns 0; a process ended by a signal returns nothing
Return ==
    /\ exit.how = "none"
    /\ status \in {"aborted", "finished", "crashed"}
    /\ exit' = IF status = "finished"
               THEN [how |-> "returned", code |-> 0, stdout |-> <<>>]
               ELSE IF status = "crashed"
               THEN [how |-> "signal", code |-> 0, stdout |-> <<>>]
               ELSE IF error = ios_failure
               THEN [how |-> "returned", code |-> 1,
                     stdout |-> << ios_failure \o ": " \o ios_what \o "\n" >>]
               ELSE [how |-> "returned", code |-> 1,
                     stdout |-> << "Error: " \o error \o "\n" >>]
    /\ UNCHANGED <<image, text_size, tags, cursor, status, error, out, buf, iter,
                   call, ret, elf>>

NextRun == ParseStart \/ Iterate \/ LoopExit \/ ParseSymtab \/ Return

-----------------------------------------------------------------------------
(* Whole runs of the program *)

\* the number of entries of the symbol tables
MaxSyms == 3

\* the bytes from the offset of the string table to the end of the file:
\* "" at 0, "a" at 1, "" at 2, "bc" at 3, "c" at 4, "" at 5, and at 6 a 'd'
\* that nothing terminates
RunStrtab == <<0, 97, 0, 98, 99, 0, 100>>

\* Elf32_Sym entries: st_info 18 (0x12) is GLOBAL FUNC, 23 (0x17) has type 7,
\* 50 (0x32) has bind 3, 55 (0x37) has both
SymEntries ==
    { [st_name |-> 1, st_value |-> 0, st_info |-> 18],
      [st_name |-> 3, st_value |-> 0, st_info |-> 23],
      [st_name |-> 0, st_value |-> 0, st_info |-> 18],
      [st_name |-> 2, st_value |-> 0, st_info |-> 50],
      [st_name |-> 1, st_value |-> 4, st_info |-> 55],
      [st_name |-> 6, st_value |-> 4, st_info |-> 18] }

RECURSIVE EntrySeqs(_)
EntrySeqs(n) ==
    IF n = 0 THEN { <<>> }
    ELSE EntrySeqs(n - 1)
            \cup { Append(f, e) : f \in { g \in EntrySeqs(n - 1) : Len(g) = n - 1 },
                                  e \in SymEntries }

\* two SYMTAB sections holding at most n entries between them
SymTabs(n) ==
    UNION { { << SubSeq(f, 1, k), SubSeq(f, k + 1, Len(f)) >> : k \in 0 .. Len(f) } :
            f \in EntrySeqs(n) }

\* e_ident[0..3]: "\x7fELF", and one byte of it changed
Idents == { <<127, 69, 76, 70>>, <<0, 69, 76, 70>>, <<127, 101, 76, 70>>,
            <<127, 69, 76, 71>> }

\* .text sections: c.nop; jal with rd = 16; the low half of a jal at the end
\* of the file; c.j -2, c.nop
RunTexts ==
    { HalfBytes(1), HalfBytes(2159) \o HalfBytes(0), HalfBytes(111),
      HalfBytes(49149) \o HalfBytes(1) }

\* the process starts: a command line, a file that opens or not, holds its
\* headers or not, with or without section headers, and its symbol tables
InitRun ==
    /\ \/ /\ elf \in { [argc |-> a, opens |-> o, complete |-> c, ident |-> i,
                        shnum |-> n, symtabs |-> <<>>, strtab |-> RunStrtab] :
                        a \in {2, 3}, o \in BOOLEAN, c \in BOOLEAN, i \in Idents,
                        n \in {0, 4} }
       \/ /\ elf \in { [argc |-> 3, opens |-> TRUE, complete |-> TRUE,
                        ident |-> <<127, 69, 76, 70>>, shnum |-> 4,
                        symtabs |-> t, strtab |-> RunStrtab] : t \in SymTabs(MaxSyms) }
    /\ image \in RunTexts
    /\ text_size = Len(image)
    /\ tags = <<>>
    /\ cursor = 0
    /\ status = "start"
    /\ error = ""
    /\ out = <<>>
    /\ buf = NoBuf
    /\ iter = NoLocals
    /\ call = NoCall
    /\ ret = NoRet
    /\ exit = NoExit

SpecRun == InitRun /\ [][NextRun]_vars

-----------------------------------------------------------------------------
(* What the properties below are stated with *)

\* the last line of the output
LastOut == out[Len(out)]

\* the last operand of a line (args[1] is the mnemonic)
LastOperand(line) == line.args[Len(line.args)]

\* the unsigned value of bits l..r of the 32-bit pattern w (r - l < 31)
RECURSIVE Field(_, _, _)
Field(w, l, r) ==
    IF r < l THEN 0
    ELSE IF l = r THEN Bit(w, l)
    ELSE Field(w, l, (l + r) \div 2)
            + 2^((l + r) \div 2 + 1 - l) * Field(w, (l + r) \div 2 + 1, r)

\* the value of the bits of w that pairs sends to their positions: each pair
\* is << bit of w, position in the value >>
RECURSIVE Gather(_, _)
Gather(w, pairs) ==
    IF pairs = <<>> THEN 0
    ELSE Bit(w, Head(pairs)[1]) * 2^(Head(pairs)[2]) + Gather(w, Tail(pairs))

\* v, a value of top + 1 bits, with bit top as its sign
SignExtend(v, top) == IF v >= 2^top THEN v - 2^(top + 1) ELSE v

\* the ABI names of x0 .. x31
AbiNames ==
    << "zero", "ra", "sp", "gp", "tp", "t0", "t1", "t2", "s0", "s1",
       "a0", "a1", "a2", "a3", "a4", "a5", "a6", "a7",
       "s2", "s3", "s4", "s5", "s6", "s7", "s8", "s9", "s10", "s11",
       "t3", "t4", "t5", "t6" >>

AbiName(x) == AbiNames[x + 1]

\* the displacement of the CJ format (c.j, c.jal): offset[11|4|9:8|10|6|7|3:1|5]
\* in bits 12 .. 2
CJDisp(w) ==
    SignExtend(Gather(w, << <<12, 11>>, <<11, 4>>, <<10, 9>>, <<9, 8>>, <<8, 10>>,
                            <<7, 6>>, <<6, 7>>, <<5, 3>>, <<4, 2>>, <<3, 1>>,
                            <<2, 5>> >>), 11)

\* the displacement of the CB format (c.beqz, c.bnez): offset[8|4:3] in bits
\* 12 .. 10 and offset[7:6|2:1|5] in bits 6 .. 2
CBDisp(w) ==
    SignExtend(Gather(w, << <<12, 8>>, <<11, 4>>, <<10, 3>>, <<6, 7>>, <<5, 6>>,
                            <<4, 2>>, <<3, 1>>, <<2, 5>> >>), 8)

\* the displacement of the J format: {w[31]<<20, w[30:21]<<1, w[20]<<11, w[19:12]<<12}
JDisp(w) ==
    SignExtend(Bit(w, 31) * 2^20 + Field(w, 21, 30) * 2 + Bit(w, 20) * 2^11
                 + Field(w, 12, 19) * 2^12, 20)

\* the displacement of the B format: {w[31]<<12, w[30:25]<<5, w[11:8]<<1, w[7]<<11}
BDisp(w) ==
    SignExtend(Bit(w, 31) * 2^12 + Field(w, 25, 30) * 2^5 + Field(w, 8, 11) * 2
                 + Bit(w, 7) * 2^11, 12)

\* the operand of a jump from adr by disp: the symbol at the wrapping sum, or
\* the displacement in decimal
Resolved(adr, disp) ==
    IF add32(adr, disp) \in DOMAIN tags THEN tags[add32(adr, disp)]
    ELSE to_string(disp)

\* the last iteration read a whole instruction (no read ran past the end)
ReadWhole == iter.n > 0 /\ error # ios_failure

\* the last iteration read a 32-bit word of the opcode op (bits [6:0])
Word32Of(op) == ReadWhole /\ iter.read32 /\ iter.cmd16 % 128 = op

\* the funct3 field, bits [14:12]
Funct3 == (iter.cmd16 \div 4096) % 8

-----------------------------------------------------------------------------
(* C1 *)

\* C1: for every half-word w16 read at an instruction boundary, the cursor
\* advances by exactly 4 bytes when the two lowest bits of w16 are 11 and by
\* exactly 2 bytes otherwise.
C1_AdvanceByLowBits ==
    (ReadWhole /\ status # "aborted")
        => cursor - iter.adr = (IF iter.cmd16 % 4 = 3 THEN 4 ELSE 2)

-----------------------------------------------------------------------------
(* C2 *)

\* C2: for every 32-bit word of opcode 1101111 and every rd in 0 .. 31 the
\* decoder emits "jal <ABI name of rd>, <target>", the target being the symbol
\* at adr + displacement or the J-format displacement; no rd makes the
\* register namer fail.
C2_JalEveryRd ==
    Word32Of(111)
        => /\ status # "aborted"
           /\ Len(out) > 0
           /\ LastOut.kind = "cmd"
           /\ LastOut.adr = iter.adr
           /\ LastOut.args = << "jal", AbiName((iter.cmd16 \div 128) % 32),
                                Resolved(iter.adr, JDisp(iter.cmd32)) >>

-----------------------------------------------------------------------------
(* C3 *)

\* the last iteration read an instruction that takes a label, and its
\* displacement
C3_IsCJ == ReadWhole /\ iter.cmd16 % 4 = 1 /\ iter.cmd16 \div 8192 \in {1, 5}
C3_IsCB == ReadWhole /\ iter.cmd16 % 4 = 1 /\ iter.cmd16 \div 8192 \in {6, 7}
C3_IsBranch == Word32Of(99) /\ Funct3 \in {0, 1, 4, 5, 6, 7}
C3_TakesLabel == C3_IsCJ \/ C3_IsCB \/ Word32Of(111) \/ C3_IsBranch

C3_Disp ==
    IF C3_IsCJ THEN CJDisp(iter.cmd16)
    ELSE IF C3_IsCB THEN CBDisp(iter.cmd16)
    ELSE IF C3_IsBranch THEN BDisp(iter.cmd32)
    ELSE JDisp(iter.cmd32)

\* C3: for every c.j, c.jal, c.beqz, c.bnez, jal and branch decoded at adr
\* with displacement disp the last operand rendered is the symbol at
\* (adr + disp) mod 2^32 when tags has one and disp in decimal otherwise;
\* jalr renders its offset in decimal whatever tags holds.
C3_LabelResolved ==
    /\ C3_TakesLabel
         => /\ status # "aborted"
            /\ Len(out) > 0
            /\ LastOut.kind = "cmd"
            /\ LastOut.adr = iter.adr
            /\ LastOperand(LastOut) = Resolved(iter.adr, C3_Disp)
    /\ Word32Of(103)
         => /\ status # "aborted"
            /\ Len(out) > 0
            /\ LastOut.kind = "cmd"
            /\ LastOut.adr = iter.adr
            /\ LastOut.args[1] = "jalr"
            /\ LastOperand(LastOut) = to_string(SignExtend(Field(iter.cmd32, 20, 31), 11))

\* the part of C3 that the code keeps: the same, for every such instruction
\* that is rendered at all
C3_RenderedLabelResolved ==
    /\ (C3_TakesLabel /\ status # "aborted")
         => /\ Len(out) > 0
            /\ LastOut.kind = "cmd"
            /\ LastOut.adr = iter.adr
            /\ LastOperand(LastOut) = Resolved(iter.adr, C3_Disp)
    /\ Word32Of(103)
         => /\ status # "aborted"
            /\ LastOut.args[1] = "jalr"
            /\ LastOperand(LastOut) = to_string(SignExtend(Field(iter.cmd32, 20, 31), 11))

-----------------------------------------------------------------------------
(* C4 *)

LoadStoreMnemonics ==
    { "lb", "lh", "lw", "lbu", "lhu", "sb", "sh", "sw",
      "c.lw", "c.sw", "c.flw", "c.fsw", "c.fld", "c.fsd",
      "c.lwsp", "c.swsp", "c.flwsp", "c.fswsp", "c.fldsp", "c.fsdsp" }

\* the text of the line ends with its last operand in parentheses
Parenthesized(line) ==
    /\ Len(line.text) > Len(LastOperand(line)) + 2
    /\ SubSeq(line.text, Len(line.text) - Len(LastOperand(line)) - 2, Len(line.text))
         = "(" \o LastOperand(line) \o ")\n"

\* C4: an emitted line has a parenthesized last operand if and only if its
\* mnemonic is one of the load/store mnemonics.
C4_ParenthesizedIffLoadStore ==
    \A i \in DOMAIN out :
        out[i].kind = "cmd"
            => (Parenthesized(out[i]) <=> out[i].args[1] \in LoadStoreMnemonics)

-----------------------------------------------------------------------------
(* C5 *)

\* the lines i < j carry addresses and no line between them does
ConsecutiveAddressed(i, j) ==
    /\ i < j
    /\ out[i].kind = "cmd"
    /\ out[j].kind = "cmd"
    /\ \A k \in (i + 1) .. (j - 1) : out[k].kind # "cmd"

\* C5 as stated: any two lines consecutive among the address-bearing lines
\* have addresses that differ by 2 or 4.
C5_ConsecutiveAddressesDiffer ==
    \A i, j \in DOMAIN out :
        ConsecutiveAddressed(i, j) => out[j].adr - out[i].adr \in {2, 4}

\* C5, amended: two address-bearing lines with no line at all between them
\* (no unknown_command placeholder) have addresses that differ by 2 or 4.
C5_AdjacentAddressesDiffer ==
    \A i \in DOMAIN out :
        (i < Len(out) /\ out[i].kind = "cmd" /\ out[i + 1].kind = "cmd")
            => out[i + 1].adr - out[i].adr \in {2, 4}

\* three lines in a row with addresses, 2 and then 4 apart
C5_Witness ==
    \E i \in DOMAIN out :
        /\ i + 2 <= Len(out)
        /\ out[i].kind = "cmd" /\ out[i + 1].kind = "cmd" /\ out[i + 2].kind = "cmd"
        /\ out[i + 1].adr - out[i].adr = 2
        /\ out[i + 2].adr - out[i + 1].adr = 4

-----------------------------------------------------------------------------
(* C6 *)

\* an iteration that completes: it leaves a line or the placeholder
C6_Step ==
    (iter'.n = iter.n + 1 /\ status' # "aborted")
        => /\ Len(out') = Len(out) + 1
           /\ iter'.adr = cursor
           /\ cursor' - cursor \in {2, 4}
           /\ iter.n = 0 => iter'.adr = 0
           /\ iter.n > 0 => iter'.adr > iter.adr

\* C6: every iteration of the driver loop that completes advances the running
\* address by exactly 2 or exactly 4, so the addresses at the top of the loop
\* are strictly increasing from 0.
C6_CompletedIterationAdvances == [][C6_Step]_vars

\* the third iteration completed with the placeholder, 4 bytes on
C6_Witness ==
    /\ iter.n = 3
    /\ status # "aborted"
    /\ iter.adr > 0
    /\ cursor - iter.adr = 4
    /\ LastOut.kind = "placeholder"

-----------------------------------------------------------------------------
(* C7 *)

\* << bits[31:27], funct3 >> of the integer operations of opcode 0110011
C7_ListedOps ==
    { <<0, 0>>, <<8, 0>>, <<0, 1>>, <<0, 2>>, <<0, 3>>, <<0, 4>>, <<0, 5>>,
      <<8, 5>>, <<0, 6>>, <<0, 7>> }

\* the last iteration read a word of a recognised group that matches no
\* sub-case
C7_NoSubCase ==
    /\ ReadWhole
    /\ \/ iter.cmd16 % 4 = 0 /\ iter.cmd16 \div 8192 = 4
       \/ /\ iter.cmd16 % 4 = 1 /\ iter.cmd16 \div 8192 = 4
          /\ Field(iter.cmd16, 10, 11) = 3
          /\ Bit(iter.cmd16, 12) = 1 /\ Bit(iter.cmd16, 6) = 1
       \/ Word32Of(3) /\ Funct3 \in {3, 6, 7}
       \/ Word32Of(35) /\ Funct3 >= 3
       \/ Word32Of(99) /\ Funct3 \in {2, 3}
       \/ /\ Word32Of(51)
          /\ \/ Field(iter.cmd32, 25, 26) \in {2, 3}
             \/ /\ Field(iter.cmd32, 25, 26) = 0
                /\ << Field(iter.cmd32, 27, 31), Funct3 >> \notin C7_ListedOps

C7_Size == IF iter.cmd16 % 4 = 3 THEN 4 ELSE 2

C7_Emitted ==
    C7_NoSubCase
        => /\ status # "aborted"
           /\ Len(out) > 0
           /\ LastOut = [kind |-> "placeholder", text |-> "unknown_command\n"]
           /\ cursor = iter.adr + C7_Size

C7_Step ==
    (C7_NoSubCase /\ iter'.n = iter.n + 1)
        => /\ iter'.adr = iter.adr + C7_Size
           /\ error' # ios_failure => iter'.cmd16 = read16(image, iter.adr + C7_Size)

\* C7: a word of a recognised group that matches no sub-case leaves exactly
\* the line unknown_command, with no address and no label, does not abort,
\* and the next iteration decodes the bytes that follow the instruction (2
\* bytes on for a compressed word, 4 for a base word).
C7_PlaceholderAndContinue == []C7_Emitted /\ [][C7_Step]_vars

\* a load with funct3 011 left the placeholder and the instruction 4 bytes on
\* was decoded next
C7_Witness ==
    /\ image[1] = 3 /\ image[2] = 48
    /\ iter.n = 2
    /\ Len(out) = 2
    /\ out[1] = [kind |-> "placeholder", text |-> "unknown_command\n"]
    /\ out[2].kind = "cmd"
    /\ out[2].adr = 4

-----------------------------------------------------------------------------
(* C8 *)

\* the two's-complement value of the field v[r:l]
TwosComplement(v, l, r) ==
    IF Bit(v, r) = 1
    THEN Field(v, l, r - 1) + (IF r - l = 31 THEN INT_MIN ELSE -(2^(r - l)))
    ELSE Field(v, l, r - 1)

\* C8: for every 32-bit v and 0 <= l <= r <= 31, get_signed(v, l, r)
\* terminates and returns the two's-complement value of v[r:l], within
\* [-2^(r-l), 2^(r-l)), and get_unsigned(v, l, r) returns a value within
\* [0, 2^(r-l+1)).  (A field of 32 bits takes every value of its type.)
C8_BitFieldsTotal ==
    ret.status \notin {"none", "pending"}
        => /\ ret.status = "returned"
           /\ call.fn = "get_signed"
                => /\ ret.val = TwosComplement(call.value, call.l, call.r)
                   /\ call.r - call.l < 31
                        => /\ -(2^(call.r - call.l)) <= ret.val
                           /\ ret.val < 2^(call.r - call.l)
           /\ (call.fn = "get_unsigned" /\ call.r - call.l < 31)
                => /\ 0 <= ret.val
                   /\ call.r - call.l < 30 => ret.val < 2^(call.r - call.l + 1)

\* the same, for every call but get_signed of bit 0 alone with that bit clear
C8_ElsewhereTotal ==
    ~(call.fn = "get_signed" /\ call.l = 0 /\ call.r = 0 /\ Bit(call.value, 0) = 0)
        => C8_BitFieldsTotal

-----------------------------------------------------------------------------
(* C9 *)

\* C9: every quadrant-0 half-word with funct3 011 is emitted as c.flw with
\* rd' = reg(w[4:2] + 8), offset (w[12:10]<<3) + (w[6]<<2) + (w[5]<<6) and
\* base reg(w[9:7] + 8), in load/store syntax.
C9_CFlw ==
    (ReadWhole /\ iter.cmd16 % 4 = 0 /\ iter.cmd16 \div 8192 = 3)
        => /\ status # "aborted"
           /\ Len(out) > 0
           /\ LastOut.kind = "cmd"
           /\ LastOut.adr = iter.adr
           /\ LastOut.args =
                << "c.flw",
                   AbiName(Field(iter.cmd16, 2, 4) + 8),
                   to_string(Field(iter.cmd16, 10, 12) * 8 + Bit(iter.cmd16, 6) * 4
                               + Bit(iter.cmd16, 5) * 64),
                   AbiName(Field(iter.cmd16, 7, 9) + 8) >>
           /\ Parenthesized(LastOut)

-----------------------------------------------------------------------------
(* C10 *)

\* .text starts with the bytes 37 15 00 00 and they have been decoded
C10_LuiDecoded ==
    /\ Len(image) >= 4
    /\ SubSeq(image, 1, 4) = <<55, 21, 0, 0>>
    /\ iter.n >= 1

\* C10 as stated: the bytes 37 15 00 00 at an address with no symbol are
\* rendered as "lui a0, 20480".
C10_LuiScaledByFive ==
    C10_LuiDecoded
        => /\ Len(out) >= 1
           /\ out[1].text = "00000000             lui a0, 20480\n"

\* C10, amended: the bytes 37 15 00 00 at an address with no symbol are
\* rendered as "lui a0, 4096", the 20-bit immediate 0x00001 shifted left by 12.
C10_LuiShiftedByTwelve ==
    C10_LuiDecoded
        => /\ Len(out) >= 1
           /\ out[1].kind = "cmd"
           /\ out[1].args = << "lui", "a0", "4096" >>
           /\ out[1].text = "00000000             lui a0, 4096\n"

C10_Witness ==
    /\ C10_LuiDecoded
    /\ iter.n = 1
    /\ iter.cmd32 = 5431
    /\ Len(out) = 1
    /\ out[1].adr = 0
    /\ out[1].tag = ""

-----------------------------------------------------------------------------
(* C11 *)

C11_Types == {0, 1, 2, 3, 4, 5, 6, 10, 12, 13, 15}
C11_Binds == {0, 1, 2, 10, 12, 13, 15}

\* a symbol-table entry whose type or bind is outside the known ones
C11_BadSymbol ==
    \E k \in DOMAIN elf.symtabs : \E i \in DOMAIN elf.symtabs[k] :
        \/ elf.symtabs[k][i].st_info % 16 \notin C11_Types
        \/ elf.symtabs[k][i].st_info \div 16 \notin C11_Binds

\* one of the fatal conditions occurred in the run (a short read is the
\* failure of a read, wherever it happened)
C11_Fatal ==
    \/ elf.argc < 3
    \/ ~elf.opens
    \/ ~elf.complete
    \/ error = ios_failure
    \/ elf.ident[2] # 69 \/ elf.ident[3] # 76 \/ elf.ident[4] # 70
    \/ C11_BadSymbol

\* C11: a run in which a fatal condition occurs (too few arguments, a file
\* that does not open or a short read, a wrong e_ident[1..3], a symbol of
\* unknown type or bind) ends with exit code 1 after exactly one diagnostic
\* line, and a run in which none occurs exits with code 0.
C11_ExitCodes ==
    exit.how # "none"
        => /\ exit.how = "returned"
           /\ IF C11_Fatal THEN exit.code = 1 /\ Len(exit.stdout) = 1
              ELSE exit.code = 0 /\ exit.stdout = <<>>

\* the same, for the runs that have section headers and no jal with
\* rd in 16 .. 31 in .text
C11_ExitCodesOtherwise ==
    (elf.shnum # 0 /\ error # "unknown register") => C11_ExitCodes

-----------------------------------------------------------------------------
(* C12 *)

\* the entries of the SYMTAB sections in iteration order
C12_Entries == IF Len(elf.symtabs) = 2 THEN elf.symtabs[1] \o elf.symtabs[2] ELSE <<>>

\* the entries at address a that have a name
C12_NamedAt(a) ==
    { i \in DOMAIN C12_Entries :
        /\ C12_Entries[i].st_value = a
        /\ C12_Entries[i].st_name # 0
        /\ get_name(elf.strtab, C12_Entries[i].st_name).name # "" }

C12_Last(S) == CHOOSE i \in S : \A j \in S : j <= i

\* calc_tags has just returned
C12_Returned == status = "running" /\ iter.n = 0 /\ elf.shnum # 0

\* C12: for every address a, tags[a] is the name of the last symbol in
\* iteration order with st_value = a and a non-empty name, and there is no
\* entry at a when no such symbol exists: a symbol with name offset 0 or an
\* empty name neither inserts nor overwrites.
C12_LastNamedSymbol ==
    C12_Returned
        => /\ DOMAIN tags = { a \in {0, 2, 4} : C12_NamedAt(a) # {} }
           /\ \A a \in DOMAIN tags :
                tags[a] = get_name(elf.strtab,
                                   C12_Entries[C12_Last(C12_NamedAt(a))].st_name).name

\* "a" at 0 in the first section, "bc" at 0 and a symbol with name offset 0 at
\* 0 in the second: the entry at 0 is "bc"
C12_Witness ==
    /\ C12_Returned
    /\ Len(elf.symtabs) = 2
    /\ Len(elf.symtabs[1]) = 1
    /\ Len(elf.symtabs[2]) = 2
    /\ elf.symtabs[1][1] = [st_name |-> 1, st_value |-> 0, st_info |-> 18]
    /\ elf.symtabs[2][1].st_name = 3 /\ elf.symtabs[2][1].st_value = 0
    /\ elf.symtabs[2][2].st_name = 0 /\ elf.symtabs[2][2].st_value = 0
    /\ tags = (0 :> "bc")


\* C13: parse_text leaves the tags mapping as calc_tags returned it: no
\* iteration of the loop, whether it emits a line or throws, and whether or
\* not the instruction's address and its jump target have a symbol, changes
\* a key or a value of tags; nor does the exit of the loop.
C13_Step == status = "running" => tags' = tags

C13_TagsUnchanged == [][C13_Step]_vars

\* a jal at address 2 to address 65538, neither of which has a symbol, after
\* a first instruction, with the mapping still the one the run started with
C13_Witness ==
    /\ status = "running"
    /\ iter.n = 2 /\ iter.adr = 2
    /\ iter.cmd_name = "jal"
    /\ iter.args = <<"zero", "65536">>
    /\ ~count(Symbols, 2) /\ ~count(Symbols, 65538)
    /\ tags = Symbols


\* the line parse_text writes for the instruction at adr of the input, from
\* its half-word(s), adr and tags alone
C14_LineAt(adr) ==
    LET cmd16  == read16(image, adr)
        read32 == reads_cmd32(cmd16)
        high   == IF read32 THEN read16(image, adr + 2) ELSE 0
        d      == decode(cmd16, high, adr, tags)
    IN  print_title(adr, TagAt(adr))
            \o print_format(d.is_load_store, <<d.cmd_name>> \o d.args)

\* C14: the text emitted for an instruction is a function of its
\* half-word(s), its address and tags only: every instruction line of the
\* output, whatever was decoded and formatted before it, is the line computed
\* from the bytes at its address, the address and tags (the static buffers of
\* print_cmd bring nothing of an earlier line into it).
C14_LinesFromInstructionOnly ==
    \A i \in DOMAIN out :
        out[i].kind = "cmd" => out[i].text = C14_LineAt(out[i].adr)

\* two lines in a row formatted into the same buffer, the second shorter than
\* the first
C14_Witness ==
    /\ Len(out) >= 2
    /\ LastOut.kind = "cmd" /\ out[Len(out) - 1].kind = "cmd"
    /\ Len(LastOut.args) = Len(out[Len(out) - 1].args)
    /\ Len(LastOut.text) < Len(out[Len(out) - 1].text)
    /\ buf[Len(LastOut.args)] # ""


\* the last iteration read a word of opcode 0110011 with bits[26:25] = f2
C15_RType(f2) == Word32Of(51) /\ Field(iter.cmd32, 25, 26) = f2

\* the mnemonics listed for bit 30 = 0, by funct3, and for bit 30 = 1
C15_Base == << "add", "sll", "slt", "sltu", "xor", "srl", "or", "and" >>

C15_Alt(f3) == IF f3 = 0 THEN "sub" ELSE IF f3 = 5 THEN "sra" ELSE ""

\* the M-extension mnemonics, by funct3
C15_MulDiv == << "mul", "mulh", "mulhsu", "mulhu", "div", "divu", "rem", "remu" >>

C15_Operands ==
    << AbiName(Field(iter.cmd32, 7, 11)), AbiName(Field(iter.cmd32, 15, 19)),
       AbiName(Field(iter.cmd32, 20, 24)) >>

\* funct2 = 01: the mnemonic by funct3 alone, operands rd, rs1, rs2
C15_MulDivByFunct3 ==
    C15_RType(1) =>
        /\ iter.cmd_name = C15_MulDiv[Funct3 + 1]
        /\ iter.args = C15_Operands

\* C15 as stated: with funct2 = 00 the mnemonic depends on bit 30 and funct3
\* only, whatever bits 31, 29, 28 and 27 are, for the ten listed pairs; with
\* funct2 = 01 on funct3 alone; operands rd, rs1, rs2.
C15_Bit30AndFunct3Only ==
    /\ C15_RType(0) /\ Bit(iter.cmd32, 30) = 0 =>
            iter.cmd_name = C15_Base[Funct3 + 1] /\ iter.args = C15_Operands
    /\ C15_RType(0) /\ Bit(iter.cmd32, 30) = 1 /\ Funct3 \in {0, 5} =>
            iter.cmd_name = C15_Alt(Funct3) /\ iter.args = C15_Operands
    /\ C15_MulDivByFunct3

\* C15, amended: with funct2 = 00 the mnemonic is chosen by the whole of
\* bits[31:27] and funct3: bits[31:27] = 00000 gives add, sll, slt, sltu, xor,
\* srl, or, and by funct3; bits[31:27] = 01000 gives sub for funct3 000 and
\* sra for 101; every other bits[31:27] and funct3 has no mnemonic and the
\* line is unknown_command.  With funct2 = 01 the mnemonic is chosen by
\* funct3 alone.  The operands are rd, rs1, rs2.
C15_High5AndFunct3 ==
    /\ C15_RType(0) =>
        /\ iter.cmd_name =
              IF Field(iter.cmd32, 27, 31) = 0 THEN C15_Base[Funct3 + 1]
              ELSE IF Field(iter.cmd32, 27, 31) = 8 THEN C15_Alt(Funct3)
              ELSE ""
        /\ iter.args = C15_Operands
        /\ iter.cmd_name = "" => LastOut = unknown_command
    /\ C15_MulDivByFunct3

\* a word add would match but for bit 31: the placeholder is written; and
\* (second witness) a funct2 = 01 word with bit 30 set decoded by funct3
C15_Witness ==
    /\ C15_RType(0) /\ Funct3 = 0
    /\ Bit(iter.cmd32, 31) = 1 /\ Bit(iter.cmd32, 30) = 0
    /\ LastOut = unknown_command

C15_WitnessMulDiv ==
    C15_RType(1) /\ Bit(iter.cmd32, 30) = 1 /\ iter.cmd_name = "divu"


\* the half of the claim that holds: print_cmd is handed the mnemonic and at
\* most three operands, and never throws
C16_PrintCmdArity ==
    /\ error # "wrong number of arguments for print_cmd function"
    /\ \A i \in DOMAIN out : out[i].kind = "cmd" => Len(out[i].args) \in 1 .. 4

\* C16: no content of .text triggers a decoder failure: every index handed
\* to get_reg is in 0..31 (the jal branch's included), print_cmd gets 1 to 4
\* strings, and the run never ends with `unknown register` or `wrong number
\* of arguments`.
C16_NoDecoderBug ==
    /\ Word32Of(111) => ULE(jal_rd(iter.cmd32), 31)
    /\ error # "unknown register"
    /\ C16_PrintCmdArity


\* C17: with .text at offset 0 and of size text_size, the bytes the last
\* iteration read, iter.adr .. cursor - 1, all lie below text_size, and when
\* the loop exits normally the cursor is exactly text_size: nothing is read
\* from beyond the end of .text, also when text_size is odd or the last
\* half-word has low bits 11.
C17_ReadsWithinText ==
    /\ ReadWhole => ULE(cursor, text_size)
    /\ status = "done" => cursor = text_size


\* the iterations a .text of text_size bytes allows: ceil(text_size / 2)
C18_MaxIterations == (text_size + 1) \div 2

\* an iteration that completes moves the cursor forward; none begins at an
\* address an earlier one began at
C18_Step ==
    /\ (iter'.n = iter.n + 1 /\ status' # "aborted") => cursor' > cursor
    /\ (iter'.n = iter.n + 1 /\ iter.n > 0) => iter'.adr > iter.adr

\* C18: the driver loop terminates: the cursor strictly increases on each
\* iteration and no address is revisited, there are at most
\* ceil(text_size / 2) iterations, and the loop eventually exits normally or
\* the run aborts with a fatal error.
C18_LoopTerminates ==
    /\ <>(status \in {"done", "aborted"})
    /\ [](iter.n <= C18_MaxIterations)
    /\ [][C18_Step]_vars

\* a normal exit after exactly ceil(text_size / 2) iterations of an odd-sized
\* .text
C18_Witness ==
    /\ status = "done"
    /\ text_size % 2 = 1
    /\ iter.n = C18_MaxIterations

=============================================================================
